---- MODULE Spec2Model ----
(***************************************************************************)
(* A model of the Jailhouse loader driver (driver.c): the four requests    *)
(* jailhouse_enable, jailhouse_disable, jailhouse_cell_create and          *)
(* jailhouse_cell_destroy, the global mutex that serialises them, and the  *)
(* cross-CPU calls enter_hypervisor / leave_hypervisor.                    *)
(*                                                                         *)
(* A request is a thread of control.  It takes the mutex in one step and   *)
(* runs its critical section in one step, except that jailhouse_enable and *)
(* jailhouse_disable stop at the spin-wait on call_done while the CPUs run *)
(* the cross call one CPU at a time, in any order.  Everything the kernel  *)
(* or the hypervisor decides (an allocation failing, cpu_down or cpu_up    *)
(* failing, a hypercall's result) is an existentially drawn input of the   *)
(* step that observes it.  A request's argument block is private to the    *)
(* caller until the critical section reads it, so it is drawn there.       *)
(***************************************************************************)
EXTENDS Integers, Sequences, FiniteSets, TLC

(* ------------------------------ bounds -------------------------------- *)
NumCpus == 2
NumThreads == 2
NumNames == 3
NumSysNames == 1
MaxCellId == 2
MaxImages == 1

(* ------------------------- errno values used -------------------------- *)
ENOENT == 2
EINTR == 4
ENOMEM == 12
EFAULT == 14
EBUSY == 16
EEXIST == 17
EINVAL == 22

CPUS == 0 .. (NumCpus - 1)
Threads == 1 .. NumThreads
\* A cell name is a NUL-terminated string (name[JAILHOUSE_CELL_NAME_MAXLEN]
\* is forced to 0); distinct strings are modelled by distinct numbers.
Names == 1 .. NumNames
\* The names the system configurations given to JAILHOUSE_ENABLE carry.
SysNames == 1 .. NumSysNames
NoThread == 0

\* What header->entry() and the JAILHOUSE_HC_DISABLE hypercall may return
\* besides 0.
HvErrs == {-EFAULT, -ENOMEM}
\* What the cell hypercalls may return as an error.
HvCellErrs == {-EINVAL}
\* What cpu_down() may return when it fails.
CpuDownErrs == {-EBUSY}
\* What load_image() may return when it fails.
LoadImageErrs == {-EFAULT}
\* What create_cell() may carry in its ERR_PTR.
CreateCellErrs == {-ENOMEM}
\* What request_firmware() may return when it fails.
FwErrs == {-ENOENT}
\* The values an int that was never assigned may hold.
UninitInt == {0, -EFAULT}

\* create_cell never returns NULL: on failure it returns ERR_PTR(err).
ERR_PTR == -ENOMEM
NULL == 0

VARIABLES
    lock,           \* the mutex: its owner, or NoThread
    enabled,        \* the enabled flag
    hypervisor_mem, \* "mapped" while the reserved region is ioremapped
    offlined_cpus,  \* the offlined_cpus mask
    call_done,      \* the completion counter of the cross call
    error_code,     \* the shared error code of the cross call
    cells,          \* the cells list: a sequence of struct cell
    online,         \* the kernel's cpu_online_mask
    module_refs,    \* references on THIS_MODULE taken by jailhouse_enable
    firmware,       \* firmware images held (request_firmware not yet released)
    pc,             \* where each thread is: "idle", "lock" (blocked on the
                    \* mutex), "crit" (owns it), "enable_wait" and
                    \* "disable_wait" (in the spin-wait), "oops" (dead)
    root_cell,      \* jailhouse_enable's local root_cell while it waits
    ipi,            \* CPUs that have the cross call still to run
    reported,       \* history: nonzero codes the CPUs returned in this cross call
    cell_cpus,      \* history: the CPU set of the config each cell was created with
    last            \* history: the request that released the mutex last

vars == <<lock, enabled, hypervisor_mem, offlined_cpus, call_done, error_code,
          cells, online, module_refs, firmware, pc, root_cell, ipi,
          reported, cell_cpus, last>>

shared == <<enabled, hypervisor_mem, offlined_cpus, call_done, error_code,
            cells, online, module_refs, firmware, root_cell, ipi, reported,
            cell_cpus>>

NoCall == [op |-> "none", ret |-> 0, tag |-> "none"]

Init ==
    /\ lock = NoThread
    /\ enabled = FALSE
    /\ hypervisor_mem = "unmapped"
    /\ offlined_cpus = {}
    /\ call_done = 0
    /\ error_code = 0
    /\ cells = <<>>
    /\ online = CPUS
    /\ module_refs = 0
    /\ firmware = 0
    /\ pc = [t \in Threads |-> "idle"]
    /\ root_cell = NULL
    /\ ipi = {}
    /\ reported = {}
    /\ cell_cpus = [n \in Names |-> {}]
    /\ last = NoCall

(* ----------------------------- registry -------------------------------- *)
CellNames == {cells[i].name : i \in 1 .. Len(cells)}

\* Mutant: the walk starts one entry late and never looks at the first
\* cell of the list, the root cell.
find_cell_mut(name) ==
    IF \E i \in 2 .. Len(cells) : cells[i].name = name
    THEN CHOOSE i \in 2 .. Len(cells) :
            /\ cells[i].name = name
            /\ \A j \in 2 .. (i - 1) : cells[j].name # name
    ELSE 0

\* find_cell: the first cell whose kobject name equals the name asked for.
find_cell(name) ==
    IF \E i \in 1 .. Len(cells) : cells[i].name = name
    THEN CHOOSE i \in 1 .. Len(cells) :
            /\ cells[i].name = name
            /\ \A j \in 1 .. (i - 1) : cells[j].name # name
    ELSE 0

\* Mutant: the name is never looked up before the cell is created.
NameTaken_mut(name) == FALSE

\* The test at line 438: find_cell(config) != NULL.
NameTaken(name) == find_cell(name) # 0

\* register_cell: list_add_tail.
register_cell(name, id) == Append(cells, [name |-> name, id |-> id])

\* delete_cell: list_del of the entry at position i.
delete_cell(i) == [j \in 1 .. (Len(cells) - 1) |-> IF j < i THEN cells[j] ELSE cells[j + 1]]

(* ------------------------------ mutex ---------------------------------- *)
\* mutex_unlock and the return of the request, with what it returns.
Return(t, o, ret, tag) ==
    /\ last' = [op |-> o, ret |-> ret, tag |-> tag]
    /\ lock' = NoThread
    /\ pc' = [pc EXCEPT ![t] = "idle"]

\* A dereference of an ERR_PTR value: the kernel oopses, the task dies where
\* it stands and the mutex it holds is never released.
Oops(t) ==
    /\ pc' = [pc EXCEPT ![t] = "oops"]
    /\ UNCHANGED <<lock, last>>

\* A thread enters one of the four requests and reaches
\* mutex_lock_interruptible.  Which request it is shows to nobody before its
\* critical section runs, so it is drawn by the step that runs it.
Call(t) ==
    /\ pc[t] = "idle"
    /\ pc' = [pc EXCEPT ![t] = "lock"]
    /\ UNCHANGED <<lock, last>>
    /\ UNCHANGED shared

\* Mutant: the mutex is handed out whether or not it is owned.
MutexFree_mut == TRUE

\* mutex_lock_interruptible succeeds: only when the mutex is free.
MutexFree == lock = NoThread

Lock(t) ==
    /\ pc[t] = "lock"
    /\ MutexFree
    /\ lock' = t
    /\ pc' = [pc EXCEPT ![t] = "crit"]
    /\ last' = NoCall
    /\ UNCHANGED shared

\* mutex_lock_interruptible is interrupted by a signal: the request returns
\* -EINTR and has touched nothing.
LockInterrupted(t) ==
    /\ pc[t] = "lock"
    /\ pc' = [pc EXCEPT ![t] = "idle"]
    /\ UNCHANGED <<lock, last>>
    /\ UNCHANGED shared

(* --------------------------- cross-CPU call ---------------------------- *)
\* error_code = 0 before the cross call (lines 239 and 321).
ResetErrorCode == error_code' = 0

\* atomic_set(&call_done, 0); on_each_cpu(func, info, 0): every online CPU
\* gets the call to run.
on_each_cpu ==
    /\ ResetErrorCode
    /\ call_done' = 0
    /\ ipi' = online
    /\ reported' = {}

\* Mutant: the status is stored whether or not it is zero.
StoreError_mut(err) == err

\* What the function run on one CPU does with the status err it got:
\* if (err) error_code = err; atomic_inc(&call_done).
StoreError(err) == IF err # 0 THEN err ELSE error_code

CrossCall(c, err) ==
    /\ c \in ipi
    /\ error_code' = StoreError(err)
    /\ call_done' = call_done + 1
    /\ ipi' = ipi \ {c}
    /\ reported' = IF err # 0 THEN reported \cup {err} ELSE reported
    /\ UNCHANGED <<lock, enabled, hypervisor_mem, offlined_cpus, cells, online,
                   module_refs, firmware, pc, root_cell, cell_cpus, last>>

\* enter_hypervisor on CPU c: err = header->entry(cpu).
enter_hypervisor(c) ==
    /\ \E t \in Threads : pc[t] = "enable_wait"
    /\ \E err \in {0} \cup HvErrs : CrossCall(c, err)

\* leave_hypervisor on CPU c: err = jailhouse_call0(JAILHOUSE_HC_DISABLE).
leave_hypervisor(c) ==
    /\ \E t \in Threads : pc[t] = "disable_wait"
    /\ \E err \in {0} \cup HvErrs : CrossCall(c, err)

\* Mutant: the caller does not wait for the counter.
BarrierDone_mut == TRUE

\* The spin-wait ends: atomic_read(&call_done) == num_online_cpus().
BarrierDone == call_done = Cardinality(online)

\* if (error_code) at line 252.
EnableFailed == error_code # 0

\* Mutant: jailhouse_disable tears down without looking at error_code.
DisableFailed_mut == FALSE

\* err = error_code; if (err) at lines 332-333.
DisableFailed == error_code # 0

(* ------------------------- jailhouse_enable ---------------------------- *)
\* Mutant: jailhouse_enable does not test the enabled flag.
AlreadyEnabled_mut == FALSE

\* The first operand of the test at line 187.
AlreadyEnabled == enabled

\* The error a failure between create_cell and the cross call returns.
EnableErr(stage, fwerr) ==
    CASE stage = "fw" -> fwerr
      [] stage = "copy" -> -EFAULT
      [] OTHER -> -EINVAL

\* From the mutex to the spin-wait (lines 186-248), or to the return when
\* a step before the cross call fails.
enable_begin(t, name) ==
    /\ pc[t] = "crit"
    /\ \E module_got \in BOOLEAN :
        \/ \* lines 186-188: -EBUSY, nothing taken
           /\ AlreadyEnabled \/ ~module_got
           /\ Return(t, "enable", -EBUSY, "busy")
           /\ UNCHANGED shared
        \/ /\ ~AlreadyEnabled /\ module_got
           /\ \E cell \in {name, ERR_PTR} :
               \/ \* request_firmware, the signature, the size, the mapping or
                  \* the copy of the configuration fails: unwind from the label
                  /\ \E stage \in {"fw", "sig", "size", "map", "copy"}, fwerr \in FwErrs :
                        IF cell = ERR_PTR
                        THEN \* kobject_put(&root_cell->kobj) at error_free_cell
                             /\ module_refs' = module_refs + 1
                             /\ Oops(t)
                             /\ UNCHANGED <<enabled, hypervisor_mem, offlined_cpus,
                                            call_done, error_code, cells, online,
                                            firmware, root_cell, ipi, reported,
                                            cell_cpus>>
                        ELSE /\ Return(t, "enable", EnableErr(stage, fwerr), "unwind")
                             /\ UNCHANGED shared
               \/ \* lines 239-246: the cross call is sent
                  /\ module_refs' = module_refs + 1
                  /\ firmware' = firmware + 1
                  /\ hypervisor_mem' = "mapped"
                  /\ root_cell' = cell
                  /\ on_each_cpu
                  /\ pc' = [pc EXCEPT ![t] = "enable_wait"]
                  /\ UNCHANGED <<lock, last, enabled, offlined_cpus, cells,
                                 online, cell_cpus>>

EnableBegin(t) == \E name \in SysNames : enable_begin(t, name)

\* Mutant: the reference on the module is not put.
module_put_mut == module_refs

\* module_put(THIS_MODULE) at lines 279 and 348: the references left.
module_put == module_refs - 1

\* From the end of the spin-wait to the return (lines 247-284).
EnableEnd(t) ==
    /\ pc[t] = "enable_wait"
    /\ BarrierDone
    /\ root_cell' = NULL
    /\ firmware' = firmware - 1
    /\ reported' = {}
    /\ UNCHANGED <<offlined_cpus, call_done, error_code, online, ipi, cell_cpus>>
    /\ IF EnableFailed
       THEN \* error_unmap .. error_unlock
            /\ hypervisor_mem' = "unmapped"
            /\ UNCHANGED <<enabled, cells>>
            /\ IF root_cell = ERR_PTR
               THEN /\ Oops(t)
                    /\ UNCHANGED module_refs
               ELSE /\ module_refs' = module_put
                    /\ Return(t, "enable", error_code, "barrier")
       ELSE \* lines 257-267
            /\ UNCHANGED <<hypervisor_mem, module_refs>>
            /\ IF root_cell = ERR_PTR
               THEN \* root_cell->id = 0 faults; the store to enabled just
                    \* before it may or may not have been done
                    /\ enabled' \in BOOLEAN
                    /\ UNCHANGED cells
                    /\ Oops(t)
               ELSE /\ enabled' = TRUE
                    /\ cells' = register_cell(root_cell, 0)
                    /\ Return(t, "enable", 0, "ok")

(* ------------------------- jailhouse_disable --------------------------- *)
\* cpu_up on every CPU of `set`, failing on those of `upfail`: the CPUs that
\* are online afterwards.
cpu_up_each(set, upfail) == online \cup (set \ upfail)

\* Mutant: jailhouse_disable leaves the cells on the list.
delete_all_cells_mut == cells

\* list_for_each_entry_safe(cell, tmp, &cells, entry) delete_cell(cell):
\* the list afterwards.
delete_all_cells == <<>>

\* From the mutex to the spin-wait (lines 316-328), or to the return when
\* the hypervisor is not enabled.
\* Mutant: a CPU is cleared from the mask only when its cpu_up succeeded, as
\* in the rollback of jailhouse_cell_create.
DisableCleared_mut(upfail) == offlined_cpus \ upfail

\* cpu_clear(cpu, offlined_cpus) at line 342: run for every CPU of the mask,
\* whatever cpu_up returned.
DisableCleared(upfail) == offlined_cpus

DisableBegin(t) ==
    /\ pc[t] = "crit"
    /\ IF ~enabled
       THEN /\ Return(t, "disable", -EINVAL, "notenabled")
            /\ UNCHANGED shared
       ELSE /\ on_each_cpu
            /\ pc' = [pc EXCEPT ![t] = "disable_wait"]
            /\ UNCHANGED <<lock, last, enabled, hypervisor_mem, offlined_cpus,
                           cells, online, module_refs, firmware, root_cell,
                           cell_cpus>>

\* From the end of the spin-wait to the return (lines 327-355).
DisableEnd(t) ==
    /\ pc[t] = "disable_wait"
    /\ BarrierDone
    /\ IF DisableFailed
       THEN /\ Return(t, "disable", error_code, "barrier")
            /\ reported' = {}
            /\ UNCHANGED <<enabled, hypervisor_mem, offlined_cpus, call_done,
                           error_code, cells, online, module_refs, firmware,
                           root_cell, ipi, cell_cpus>>
       ELSE /\ hypervisor_mem' = "unmapped"
            /\ \E upfail \in SUBSET offlined_cpus :
                  /\ online' = cpu_up_each(offlined_cpus, upfail)
                  /\ offlined_cpus' = offlined_cpus \ DisableCleared(upfail)
            /\ cells' = delete_all_cells
            /\ cell_cpus' = [n \in Names |-> {}]
            /\ enabled' = FALSE
            /\ module_refs' = module_put
            /\ Return(t, "disable", 0, "ok")
            /\ reported' = {}
            /\ UNCHANGED <<call_done, error_code, firmware, root_cell, ipi>>

(* ----------------------- the hypervisor's cell calls ------------------- *)
\* The CPUs that belong to the registered cells other than the root cell.
ClaimedCpus == UNION {cell_cpus[cells[i].name] : i \in 1 .. Len(cells)}

FreeIds == (1 .. MaxCellId) \ {cells[i].id : i \in 1 .. Len(cells)}

\* JAILHOUSE_HC_CELL_CREATE: an error, or the id of the new cell, the
\* smallest one free.  Id 0 is the root cell's; a cell's CPUs are disjoint
\* from every other cell's.
HvCellCreate(cpus) ==
    HvCellErrs \cup (IF cpus \cap ClaimedCpus = {} /\ FreeIds # {}
                     THEN {CHOOSE i \in FreeIds : \A j \in FreeIds : i <= j}
                     ELSE {})

\* JAILHOUSE_HC_CELL_DESTROY: an error, or 0.  The root cell is never
\* destroyed on its own.
HvCellDestroy(id) == HvCellErrs \cup (IF id # 0 THEN {0} ELSE {})

(* ----------------------- jailhouse_cell_create ------------------------- *)
\* for_each_cell_cpu walks the set in ascending order: the CPUs cpu_down took
\* offline before it failed on failcpu.
TakenBefore(cpus, failcpu) == {c \in cpus \cap online : c < failcpu}

\* error_cpu_online (lines 482-485): the CPUs of the config the loop finds
\* offline, with took already down.
RollbackCandidates(cpus, took) == cpus \ (online \ took)

\* Mutant: the rollback brings the CPUs up and forgets cpu_clear.
error_cpu_online_mut(cpus, took, upfail) ==
    LET up == RollbackCandidates(cpus, took) \ upfail
    IN  /\ online' = (online \ took) \cup up
        /\ offlined_cpus' = offlined_cpus \cup took

\* Mutant: the rollback clears every CPU it tried to bring up, as the loop of
\* jailhouse_disable does, whether or not cpu_up succeeded.
error_cpu_online_clear(cpus, took, upfail) ==
    LET cand == RollbackCandidates(cpus, took)
    IN  /\ online' = (online \ took) \cup (cand \ upfail)
        /\ offlined_cpus' = (offlined_cpus \cup took) \ cand

\* The rollback's effect on cpu_online_mask and offlined_cpus; cpu_up fails
\* on the CPUs of upfail.
error_cpu_online(cpus, took, upfail) ==
    LET up == RollbackCandidates(cpus, took) \ upfail
    IN  /\ online' = (online \ took) \cup up
        /\ offlined_cpus' = (offlined_cpus \cup took) \ up

\* err at line 480 on the path that registers the cell: the last value
\* load_image or cpu_down assigned, if either was called.
CreateOkRet(nimg, took) == IF nimg > 0 \/ took # {} THEN {0} ELSE UninitInt

cell_create(t, name, cpus, nimg) ==
    /\ pc[t] = "crit"
    /\ IF ~enabled
       THEN \* lines 433-436
            /\ Return(t, "create", -EINVAL, "notenabled")
            /\ UNCHANGED <<offlined_cpus, cells, online, cell_cpus>>
       ELSE IF NameTaken(name)
       THEN \* lines 438-441
            /\ Return(t, "create", -EEXIST, "exists")
            /\ UNCHANGED <<offlined_cpus, cells, online, cell_cpus>>
       ELSE \/ \* lines 443-447: load_image fails
               /\ nimg > 0
               /\ \E e \in LoadImageErrs : Return(t, "create", e, "image")
               /\ UNCHANGED <<offlined_cpus, cells, online, cell_cpus>>
            \/ \* lines 449-453: create_cell fails
               /\ \E e \in CreateCellErrs : Return(t, "create", e, "cell")
               /\ UNCHANGED <<offlined_cpus, cells, online, cell_cpus>>
            \/ \* lines 455-461: cpu_down fails on failcpu
               /\ \E failcpu \in cpus \cap online, e \in CpuDownErrs :
                     LET took == TakenBefore(cpus, failcpu)
                     IN  /\ Return(t, "create", e, "cpu_down")
                         /\ \E upfail \in SUBSET RollbackCandidates(cpus, took) :
                               error_cpu_online(cpus, took, upfail)
               /\ UNCHANGED <<cells, cell_cpus>>
            \/ \* lines 455-470: every cpu_down succeeds (the last online
               \* CPU cannot go down), then the hypercall
               /\ online \ cpus # {}
               /\ LET took == cpus \cap online
                  IN  \E r \in HvCellCreate(cpus) :
                        IF r < 0
                        THEN /\ Return(t, "create", r, "hv")
                             /\ UNCHANGED <<cells, cell_cpus>>
                             /\ \E upfail \in SUBSET RollbackCandidates(cpus, took) :
                                   error_cpu_online(cpus, took, upfail)
                        ELSE /\ \E ret \in CreateOkRet(nimg, took) :
                                   Return(t, "create", ret, "ok")
                             /\ online' = online \ took
                             /\ offlined_cpus' = offlined_cpus \cup took
                             /\ cells' = register_cell(name, r)
                             /\ cell_cpus' = [cell_cpus EXCEPT ![name] = cpus]
    /\ UNCHANGED <<enabled, hypervisor_mem, call_done, error_code, module_refs,
                   firmware, root_cell, ipi, reported>>

CellCreate(t) ==
    \E name \in Names, cpus \in SUBSET CPUS, nimg \in 0 .. MaxImages :
        cell_create(t, name, cpus, nimg)

(* ----------------------- jailhouse_cell_destroy ------------------------ *)
\* Mutant: the result of the destroy hypercall is not looked at.
DestroyFailed_mut(r) == FALSE

\* err = jailhouse_call1(JAILHOUSE_HC_CELL_DESTROY, cell->id); if (err) at
\* lines 529-531.
DestroyFailed(r) == r # 0

cell_destroy(t, name, cpus) ==
    /\ pc[t] = "crit"
    /\ UNCHANGED <<enabled, hypervisor_mem, call_done, error_code, module_refs,
                   firmware, root_cell, ipi, reported>>
    /\  \/ \* lines 518-521
           /\ ~enabled
           /\ Return(t, "destroy", -EINVAL, "notenabled")
           /\ UNCHANGED <<offlined_cpus, cells, online, cell_cpus>>
        \/ \* lines 523-527
           /\ enabled /\ find_cell(name) = 0
           /\ Return(t, "destroy", -ENOENT, "noent")
           /\ UNCHANGED <<offlined_cpus, cells, online, cell_cpus>>
        \/ \* lines 529-541
           /\ enabled /\ find_cell(name) # 0
           /\ \E r \in HvCellDestroy(cells[find_cell(name)].id) :
                 IF DestroyFailed(r)
                 THEN /\ Return(t, "destroy", r, "hv")
                      /\ UNCHANGED <<offlined_cpus, cells, online, cell_cpus>>
                 ELSE /\ cells' = delete_cell(find_cell(name))
                      /\ cell_cpus' = [cell_cpus EXCEPT ![name] = {}]
                      /\ \E upfail \in SUBSET (cpus \cap offlined_cpus) :
                            online' = cpu_up_each(cpus \cap offlined_cpus, upfail)
                      /\ offlined_cpus' = offlined_cpus \ cpus
                      /\ Return(t, "destroy", r, "ok")

CellDestroy(t) ==
    \E name \in Names, cpus \in SUBSET CPUS : cell_destroy(t, name, cpus)

(* --------------------------- specification ----------------------------- *)
Next ==
    \/ \E t \in Threads : Call(t)
    \/ \E t \in Threads : Lock(t)
    \/ \E t \in Threads : LockInterrupted(t)
    \/ \E t \in Threads : EnableBegin(t)
    \/ \E c \in CPUS : enter_hypervisor(c)
    \/ \E t \in Threads : EnableEnd(t)
    \/ \E t \in Threads : DisableBegin(t)
    \/ \E c \in CPUS : leave_hypervisor(c)
    \/ \E t \in Threads : DisableEnd(t)
    \/ \E t \in Threads : CellCreate(t)
    \/ \E t \in Threads : CellDestroy(t)

Spec == Init /\ [][Next]_vars

\* The behaviours in which every jailhouse_cell_create and
\* jailhouse_cell_destroy call succeeds.
NextAllSucceed == Next /\ (last'.op \in {"create", "destroy"} => last'.tag = "ok")

SpecAllSucceed == Init /\ [][NextAllSucceed]_vars

(* ------------------------------ properties ----------------------------- *)
\* The host state a request works on.
host == <<enabled, hypervisor_mem, offlined_cpus, cells, online, module_refs>>

InSection(t) == pc[t] \in {"crit", "enable_wait", "disable_wait", "oops"}

\* The step that runs the critical section of a request of thread t.
EnableStep(t) ==
    /\ pc[t] = "crit"
    /\ \/ pc'[t] \in {"enable_wait", "oops"}
       \/ pc'[t] = "idle" /\ last'.op = "enable"

CreateStep(t) == pc[t] = "crit" /\ pc'[t] = "idle" /\ last'.op = "create"

DestroyStep(t) == pc[t] = "crit" /\ pc'[t] = "idle" /\ last'.op = "destroy"

\* C1: at most one request at a time is inside the section that reads or
\* writes the enabled flag, the registry, offlined_cpus or the mapping: a
\* thread inside it owns the mutex; that state changes only in steps taken
\* while the mutex is owned, and the mutex passes from one owner to the next
\* only through a release, so the requests take effect one after another.
C1_Serialized ==
    /\ [](\A t \in Threads : InSection(t) => lock = t)
    /\ [][/\ (shared' # shared => lock # NoThread)
          /\ (lock # NoThread /\ lock' # lock => lock' = NoThread)]_vars

\* C1 witness: one request is in the spin-wait of its cross call while
\* another is blocked on the mutex.
C1_Witness ==
    \E t, u \in Threads :
        /\ pc[t] \in {"enable_wait", "disable_wait"}
        /\ pc[u] = "lock"
        /\ ipi # {}

\* C2: an Enable call in which a CPU's entry returned nonzero returns a
\* failure and leaves the system disabled, the region unmapped, the registry
\* without the root cell, and the module reference and the firmware image
\* released.
C2_EnableBarrierFailure ==
    [][\A t \in Threads :
          (pc[t] = "enable_wait" /\ reported # {} /\ pc'[t] # "enable_wait")
          => /\ pc'[t] = "idle" /\ lock' = NoThread
             /\ last'.op = "enable" /\ last'.ret # 0
             /\ ~enabled'
             /\ hypervisor_mem' = "unmapped"
             /\ cells' = <<>>
             /\ module_refs' = module_refs - 1
             /\ firmware' = firmware - 1]_vars

\* C3: a Disable call in which a CPU's disable call returned nonzero returns
\* that error, and from its first step to its return the system stays
\* enabled: the mapping, the registry, offlined_cpus, the online CPUs and the
\* module reference are unchanged.
C3_DisableBarrierFailure ==
    [][\A t \in Threads :
          /\ (pc[t] = "crit" /\ pc'[t] = "disable_wait") => UNCHANGED host
          /\ (pc[t] = "disable_wait" /\ pc'[t] = "disable_wait") => UNCHANGED host
          /\ (pc[t] = "disable_wait" /\ pc'[t] # "disable_wait" /\ reported # {})
             => /\ pc'[t] = "idle" /\ lock' = NoThread
                /\ last'.op = "disable"
                /\ last'.ret # 0 /\ last'.ret \in reported
                /\ enabled' /\ hypervisor_mem' = "mapped"
                /\ UNCHANGED host]_vars

\* C3 witness: Disable has just returned the error of its cross call, with
\* a cell registered and a CPU offlined.
C3_Witness ==
    /\ last.op = "disable" /\ last.tag = "barrier" /\ last.ret \in HvErrs
    /\ enabled /\ Len(cells) > 1 /\ offlined_cpus # {}

\* C4: right after an Enable that returns 0 the system is enabled and the
\* registry holds exactly one cell, the root cell, with id 0 and the name of
\* the system configuration; Enable returns 0 on no other path.
C4_EnableSuccess ==
    /\ [](last.op = "enable" /\ last.ret = 0
            => /\ enabled
               /\ Len(cells) = 1
               /\ cells[1].id = 0
               /\ cells[1].name \in SysNames)
    /\ [][\A t \in Threads :
            /\ (EnableStep(t) /\ pc'[t] = "idle") => last'.ret # 0
            /\ (pc[t] = "crit" /\ pc'[t] = "enable_wait")
               => \A name \in SysNames :
                     enable_begin(t, name) => root_cell' \in {name, ERR_PTR}
            /\ (pc[t] = "enable_wait" /\ pc'[t] = "idle" /\ last'.ret = 0)
               => /\ enabled'
                  /\ cells' = <<[name |-> root_cell, id |-> 0]>>]_vars

\* C4 witness: Enable has just succeeded on a system that went through an
\* earlier cycle (a CPU of a cell of that cycle never came back online).
C4_Witness ==
    /\ last.op = "enable" /\ last.ret = 0
    /\ online # CPUS

\* C5: Enable while enabled returns -EBUSY in its first step and changes
\* nothing: not the flag, the registry, offlined_cpus, the mapping, the
\* module reference count, and no CPU gets the cross call.
C5_EnableWhileEnabled ==
    [][\A t \in Threads :
          (EnableStep(t) /\ enabled)
          => /\ pc'[t] = "idle" /\ lock' = NoThread
             /\ last'.ret = -EBUSY
             /\ UNCHANGED shared]_vars

\* C5 witness: Enable has just been refused with -EBUSY while a cell
\* besides the root cell is registered.
C5_Witness ==
    /\ last.op = "enable" /\ last.ret = -EBUSY
    /\ enabled /\ Len(cells) > 1

\* The CreateCell steps that fail at one of the injection points.
CreateFails(t) == CreateStep(t) /\ last'.tag \in {"image", "cpu_down", "hv"}

\* C6 as stated: after a CreateCell that fails at an injection point the
\* registry does not hold the new cell and offlined_cpus holds none of the
\* CPUs the cell claimed.
C6_RollbackComplete ==
    [][\A t \in Threads :
          CreateFails(t)
          => \A name \in Names, cpus \in SUBSET CPUS, nimg \in 0 .. MaxImages :
                cell_create(t, name, cpus, nimg)
                => /\ name \notin CellNames'
                   /\ offlined_cpus' \cap cpus = {}]_vars

\* C6 amended: after a CreateCell that fails at an injection point the call
\* returns nonzero and the registry is unchanged.  After an image fault the
\* online CPUs and offlined_cpus are unchanged.  After a cpu_down failure or
\* a hypervisor rejection every claimed CPU is either online and out of
\* offlined_cpus, or still offline (its cpu_up failed), and then it is in
\* offlined_cpus if this call took it offline; CPUs not claimed are
\* untouched.
C6_RollbackBestEffort ==
    [][\A t \in Threads :
          CreateFails(t)
          => \A name \in Names, cpus \in SUBSET CPUS, nimg \in 0 .. MaxImages :
                cell_create(t, name, cpus, nimg)
                => /\ last'.ret # 0
                   /\ cells' = cells
                   /\ name \notin CellNames'
                   /\ last'.tag = "image" => UNCHANGED <<online, offlined_cpus>>
                   /\ offlined_cpus' \cap online' = {}
                   /\ \A c \in cpus \cap online :
                         c \notin online' => c \in offlined_cpus'
                   /\ online' \ cpus = online \ cpus
                   /\ offlined_cpus' \ cpus = offlined_cpus \ cpus]_vars

\* C6 witness: CreateCell has just failed after withdrawing CPUs, and a CPU
\* is in offlined_cpus that belongs to no registered cell.
C6_Witness ==
    /\ last.op = "create" /\ last.tag \in {"cpu_down", "hv"}
    /\ offlined_cpus \ ClaimedCpus # {}

\* C7 (its case of the CPUs of other registered cells): the rollback of a
\* CreateCell that fails after it started withdrawing CPUs brings no CPU of
\* another registered cell online and removes none from offlined_cpus.
C7_RollbackLeavesOtherCells ==
    [][\A t \in Threads :
          (CreateStep(t) /\ last'.tag \in {"cpu_down", "hv"})
          => /\ ClaimedCpus \cap online' = ClaimedCpus \cap online
             /\ ClaimedCpus \cap offlined_cpus \subseteq offlined_cpus']_vars

\* C8: when every CreateCell and DestroyCell call succeeds, offlined_cpus is
\* the union of the CPU sets of the registered cells other than the root
\* cell; after a successful Disable it is empty.
C8_CpuConservation ==
    /\ enabled => offlined_cpus = ClaimedCpus
    /\ (last.op = "disable" /\ last.tag = "ok") => offlined_cpus = {}

\* C9: CreateCell with the name of a registered cell (the root cell
\* included) returns -EEXIST from the lookup, before any image load, CPU
\* withdrawal or hypercall, and changes nothing.
C9_NameConflict ==
    [][\A t \in Threads :
          (CreateStep(t) /\ enabled)
          => \A name \in CellNames, cpus \in SUBSET CPUS, nimg \in 0 .. MaxImages :
                cell_create(t, name, cpus, nimg)
                => /\ last'.ret = -EEXIST
                   /\ last'.tag = "exists"
                   /\ UNCHANGED shared]_vars

\* C9 witness: CreateCell has just been refused with -EEXIST.
C9_Witness ==
    /\ last.op = "create" /\ last.tag = "exists" /\ last.ret = -EEXIST
    /\ enabled

\* C10: no two cells of the registry have the same name.
C10_UniqueNames ==
    \A i, j \in 1 .. Len(cells) : cells[i].name = cells[j].name => i = j

\* C10 witness: the registry holds the root cell and two more cells.
C10_Witness == Len(cells) >= 3

\* C11: a DestroyCell whose destroy hypercall returns nonzero returns that
\* status and leaves the cell intact: the registry (the cell and its id
\* with it), the online CPUs and offlined_cpus are unchanged, and so is
\* everything else.
C11_DestroyFailureIntact ==
    [][\A t \in Threads :
          (/\ DestroyStep(t)
           /\ enabled
           /\ last'.ret # 0
           /\ last'.ret # -ENOENT)
          => /\ last'.ret \in HvCellErrs
             /\ UNCHANGED shared]_vars

\* C11 witness: DestroyCell has just returned the hypervisor's error for a
\* registered cell that owns an offlined CPU.
C11_Witness ==
    /\ last.op = "destroy" /\ last.tag = "hv"
    /\ Len(cells) > 1
    /\ ClaimedCpus \cap offlined_cpus # {}

\* C12: each request returns 0 exactly when it succeeds: CreateCell returns
\* 0 exactly when it registered a cell, DestroyCell exactly when it removed
\* one, Enable exactly when the system became enabled, Disable exactly when
\* it became disabled.
C12_ZeroIffSuccess ==
    [][\A t \in Threads :
          /\ CreateStep(t) => ((last'.ret = 0) <=> (Len(cells') = Len(cells) + 1))
          /\ DestroyStep(t) => ((last'.ret = 0) <=> (Len(cells') = Len(cells) - 1))
          /\ (pc[t] \in {"crit", "enable_wait"} /\ pc'[t] = "idle"
                /\ last'.op = "enable")
             => ((last'.ret = 0) <=> (~enabled /\ enabled'))
          /\ (pc[t] \in {"crit", "disable_wait"} /\ pc'[t] = "idle"
                /\ last'.op = "disable")
             => ((last'.ret = 0) <=> (enabled /\ ~enabled'))]_vars

\* The cells of the registry own pairwise disjoint CPU sets.
DisjointOwnership ==
    \A i, j \in 1 .. Len(cells) :
        i # j => cell_cpus[cells[i].name] \cap cell_cpus[cells[j].name] = {}

OwnedByRemoved == UNION {cell_cpus[n] : n \in CellNames \ CellNames'}

\* C14: a successful DestroyCell removes from offlined_cpus exactly the
\* CPUs the destroyed cell owned and brings online no other CPU, whatever
\* CPU set the configuration of the destroy request carries.
C14_DestroyRestoresOwner ==
    [][\A t \in Threads :
          (DestroyStep(t) /\ Len(cells') = Len(cells) - 1)
          => /\ offlined_cpus' = offlined_cpus \ OwnedByRemoved
             /\ online \subseteq online'
             /\ online' \subseteq online \cup OwnedByRemoved]_vars

\* C15: a Disable in which every CPU's disable call returned 0 returns 0
\* and ends with the region unmapped, offlined_cpus empty, the registry
\* empty, the flag cleared and the module reference put; the CPUs online
\* afterwards are those online before and any subset of offlined_cpus (each
\* cpu_up may fail).
C15_DisableSuccess ==
    [][\A t \in Threads :
          (pc[t] = "disable_wait" /\ pc'[t] # "disable_wait" /\ reported = {})
          => /\ pc'[t] = "idle" /\ lock' = NoThread
             /\ last'.op = "disable" /\ last'.ret = 0
             /\ hypervisor_mem' = "unmapped"
             /\ offlined_cpus' = {}
             /\ cells' = <<>>
             /\ ~enabled'
             /\ module_refs' = module_refs - 1
             /\ online \subseteq online'
             /\ online' \subseteq online \cup offlined_cpus]_vars

\* C15 witness: Disable has just succeeded and a CPU it tried to restore
\* did not come back online.
C15_Witness ==
    /\ last.op = "disable" /\ last.ret = 0
    /\ ~enabled /\ cells = <<>> /\ offlined_cpus = {}
    /\ online # CPUS

Waiting(t) == pc[t] \in {"enable_wait", "disable_wait"}

\* C16: the cross call starts with the counter at 0 and one call pending on
\* every online CPU; each CPU runs it once (a CPU that ran it is counted
\* once and has none pending); while the caller waits, the flag, the
\* mapping and the registry do not change; the caller goes on only when
\* the counter equals the number of online CPUs and no call is pending.
C16_BarrierWaits ==
    /\ [](\A t \in Threads :
            Waiting(t) => /\ ipi \subseteq online
                          /\ call_done + Cardinality(ipi) = Cardinality(online))
    /\ [][\A t \in Threads :
            /\ (pc[t] = "crit" /\ Waiting(t)')
               => /\ call_done' = 0 /\ ipi' = online
                  /\ UNCHANGED <<enabled, cells, online>>
            /\ (Waiting(t) /\ pc'[t] = pc[t])
               => /\ UNCHANGED <<enabled, hypervisor_mem, cells, online>>
                  /\ \/ UNCHANGED <<call_done, ipi>>
                     \/ /\ call_done' = call_done + 1
                        /\ \E c \in ipi : ipi' = ipi \ {c}
            /\ (Waiting(t) /\ pc'[t] # pc[t])
               => /\ ipi = {}
                  /\ call_done = Cardinality(online)]_vars

\* C16 witness: a caller is waiting, one CPU has run the call and another
\* has it pending.
C16_Witness ==
    /\ \E t \in Threads : Waiting(t)
    /\ call_done > 0 /\ ipi # {}

\* C17: while a caller waits, error_code is 0 exactly when no CPU has
\* reported a nonzero status in this cross call, and otherwise it is one of
\* the statuses reported in this cross call.
C17_Aggregate ==
    \A t \in Threads :
        Waiting(t) => /\ (error_code = 0) <=> (reported = {})
                      /\ error_code # 0 => error_code \in reported

\* C17 witness: every CPU has run the call, two different nonzero statuses
\* were reported, and the caller is about to read error_code.
C17_Witness ==
    /\ \E t \in Threads : Waiting(t)
    /\ BarrierDone
    /\ Cardinality(reported) >= 2

\* C18: an Enable whose create_cell failed returns an error without going
\* on: the step of Enable that runs create_cell either returns or starts the
\* cross call with a root cell that was constructed; it never dies on the
\* failed root cell and never carries one into the cross call.
C18_CreateCellFailure ==
    [][\A t \in Threads :
          EnableStep(t)
          => \/ pc'[t] = "idle" /\ lock' = NoThread
             \/ pc'[t] = "enable_wait" /\ root_cell' \in SysNames]_vars

\* C19: a request that leaves its critical section has released the mutex,
\* and the owner of the mutex is always a request that is still running
\* towards its release (in its critical section or in the spin-wait of its
\* cross call), so that the mutex is never held for ever.
C19_LockReleased ==
    /\ [](\A t \in Threads :
            lock = t => pc[t] \in {"crit", "enable_wait", "disable_wait"})
    /\ [][\A t \in Threads :
            (InSection(t) /\ ~InSection(t)') => lock' = NoThread]_vars

\* C20: whenever no request owns the mutex, the region is mapped exactly
\* when the system is enabled, the module reference of Enable is held
\* exactly when it is enabled, no firmware image is held, and while disabled
\* the registry and offlined_cpus are empty.
C20_ResourcesConsistent ==
    lock = NoThread
    => /\ (hypervisor_mem = "mapped") <=> enabled
       /\ module_refs = (IF enabled THEN 1 ELSE 0)
       /\ firmware = 0
       /\ ~enabled => (cells = <<>> /\ offlined_cpus = {})

\* C20 witness: an Enable has just been unwound after a failed cross call,
\* on a system that was enabled and disabled before (a CPU stayed offline).
C20_Witness ==
    /\ lock = NoThread
    /\ last.op = "enable" /\ last.tag = "barrier"
    /\ online # CPUS
====
